---- MODULE Spec2Model ----
(***************************************************************************)
(* MachineLearningSets.py: class MachineLearningSet turns the records of a *)
(* csv file into an input matrix and a target matrix.  The model follows   *)
(* __init__ (lines 16-64) and the three methods it drives:                 *)
(* _construct_matrices (66-122), _normalize (151-178), _encode_classes     *)
(* (124-149) with the static _hot_encode (188-201).                        *)
(*                                                                         *)
(* Floating point values are modelled exactly.  A finite value is          *)
(*     (n / d) * sqrt(r)                                                   *)
(* with n/d in lowest terms, d > 0 and r a square-free positive integer    *)
(* (r = 1 for every rational): means of the values read from a file are    *)
(* rational, standard deviations are square roots of rationals.  NaN and   *)
(* the two infinities are separate values with the IEEE-754 rules numpy    *)
(* applies to them.                                                        *)
(***************************************************************************)
EXTENDS Integers, Sequences, FiniteSets

----------------------------------------------------------------------------
(* Bounds of the model. *)

\* Largest number of records in a csv file.
MaxRows == 2

----------------------------------------------------------------------------
(* Exact arithmetic on the values numpy computes. *)

Abs(i) == IF i < 0 THEN -i ELSE i

RECURSIVE Gcd(_, _)
Gcd(a, b) == IF b = 0 THEN a ELSE Gcd(b, a % b)

\* The largest s with s*s dividing m (m >= 1).
SqPart(m) == CHOOSE s \in 1..m : /\ m % (s * s) = 0
                                 /\ \A t \in (s + 1)..m : m % (t * t) # 0

NaN == [k |-> "nan", n |-> 0, d |-> 1, r |-> 1]
PosInf == [k |-> "inf", n |-> 1, d |-> 1, r |-> 1]
NegInf == [k |-> "inf", n |-> -1, d |-> 1, r |-> 1]
\* A sum of two non-zero values with different radicals: outside the form above.
Surd == [k |-> "surd", n |-> 0, d |-> 1, r |-> 1]

\* (n / d) * sqrt(r) in canonical form; d # 0, r >= 1.
Num(n, d, r) ==
    IF n = 0 THEN [k |-> "num", n |-> 0, d |-> 1, r |-> 1]
    ELSE LET s  == SqPart(r)
             nn == (IF d < 0 THEN -n ELSE n) * s
             dd == Abs(d)
             g  == Gcd(Abs(nn), dd)
         IN  [k |-> "num", n |-> nn \div g, d |-> dd \div g, r |-> r \div (s * s)]

FromInt(i) == Num(i, 1, 1)
Zero == FromInt(0)

IsNaN(v) == v.k = "nan"
IsFinite(v) == v.k = "num"
Sign(v) == IF v.n > 0 THEN 1 ELSE IF v.n < 0 THEN -1 ELSE 0

Neg(v) == IF v.k = "num" \/ v.k = "inf" THEN [v EXCEPT !.n = -v.n] ELSE v

\* a + b with the IEEE rules for NaN and the infinities.
Add(a, b) ==
    IF a.k = "nan" \/ b.k = "nan" \/ a.k = "surd" \/ b.k = "surd" THEN
        (IF a.k = "surd" \/ b.k = "surd" THEN Surd ELSE NaN)
    ELSE IF a.k = "inf" /\ b.k = "inf" THEN (IF a.n = b.n THEN a ELSE NaN)
    ELSE IF a.k = "inf" THEN a
    ELSE IF b.k = "inf" THEN b
    ELSE IF a.n = 0 THEN b
    ELSE IF b.n = 0 THEN a
    ELSE IF a.r = b.r THEN Num(a.n * b.d + b.n * a.d, a.d * b.d, a.r)
    ELSE Surd

Sub(a, b) == Add(a, Neg(b))

\* a / b: numpy divides without raising; x/0 is an infinity, 0/0 is NaN.
Div(a, b) ==
    IF a.k = "surd" \/ b.k = "surd" THEN Surd
    ELSE IF a.k = "nan" \/ b.k = "nan" THEN NaN
    ELSE IF a.k = "inf" /\ b.k = "inf" THEN NaN
    ELSE IF a.k = "inf" THEN (IF Sign(b) < 0 THEN Neg(a) ELSE a)
    ELSE IF b.k = "inf" THEN Zero
    ELSE IF b.n = 0 THEN
        (IF a.n = 0 THEN NaN ELSE IF a.n > 0 THEN PosInf ELSE NegInf)
    ELSE \* (an/ad) sqrt(ar) / ((bn/bd) sqrt(br)) = (an bd)/(ad bn br) sqrt(ar br)
        Num(a.n * b.d, a.d * b.n * b.r, a.r * b.r)

\* v * v for a finite v: a rational.
Square(v) == Num(v.n * v.n * v.r, v.d * v.d, 1)

\* The non-negative square root of a finite rational v >= 0.
Sqrt(v) == IF v.n = 0 THEN Zero ELSE Num(1, v.d, v.n * v.d)

RECURSIVE SumSeq(_)
SumSeq(s) == IF s = <<>> THEN Zero ELSE Add(Head(s), SumSeq(Tail(s)))

\* The entries of s that are not NaN, in order.
NonNaN(s) == SelectSeq(s, LAMBDA v : ~IsNaN(v))

\* np.nanmean of a column: NaN for a column with no value.
NanMean(col) ==
    LET vs == NonNaN(col)
    IN  IF vs = <<>> THEN NaN ELSE Div(SumSeq(vs), FromInt(Len(vs)))

\* np.nanstd of a column (population standard deviation, ddof = 0).
NanStd(col) ==
    LET vs == NonNaN(col)
        m  == NanMean(col)
        dv == [i \in 1..Len(vs) |-> Sub(vs[i], m)]
    IN  IF vs = <<>> THEN NaN
        ELSE IF \E i \in 1..Len(dv) : ~IsFinite(dv[i]) THEN
            (IF \E i \in 1..Len(dv) : dv[i].k = "surd" THEN Surd ELSE NaN)
        ELSE Sqrt(Div(SumSeq([i \in 1..Len(dv) |-> Square(dv[i])]), FromInt(Len(vs))))

----------------------------------------------------------------------------
(* Program constants and the inputs of the model. *)

\* Line 12.
FEATURETYPES == {"continuous", "class", "ignore", "target_continuous", "target_class"}
\* Line 13.
NANBEHAVIOUR == {"ignore", "delete_row"}

\* One entry of the features dict: a column name and its type.
F(name, kind) == [name |-> name, kind |-> kind]

\* The features dicts passed to successive constructor calls.
CallSchemas ==
    { <<F("A", "class")>>,
      <<F("C", "continuous"), F("A", "class")>>,
      <<F("B", "target_continuous"), F("A", "target_class")>>,
      <<F("B", "ignore"), F("A", "class")>>,
      <<F("A", "continuous"), F("C", "target_continuous")>> }

\* The nan_behaviour arguments: the two of NANBEHAVIOUR and one the docstring
\* calls not yet supported.
Policies == NANBEHAVIOUR \cup {"mean"}

\* Cell texts of a continuous column: empty, numeric, not a number.
ContStrings == {"", "1", "3", "x"}
\* Cell texts of a class column.
ClassStrings == {"a", "c"}

\* float(s) for the numeric texts (lines 92, 100).
Numeric == {"1", "3"}
Float(s) == IF s = "1" THEN FromInt(1) ELSE FromInt(3)

\* A column the csv file may lack although the features dict declares it.
MissingColumns == {"B"}

\* What np.ndarray leaves in a cell nothing is stored into: whatever float the
\* memory held.  One value of every sort the code tells apart: NaN, an
\* infinity, zero, a negative number, integers inside and outside the range of
\* the class indexes, and a number that is no integer.
Garbage == {NaN, PosInf, Zero, FromInt(-1), FromInt(1), FromInt(3), Num(1, 2, 1)}
\* A cell of a fresh np.ndarray that the fill loop stores into before any read.
Uninit == [k |-> "uninit", n |-> 0, d |-> 1, r |-> 1]

EmptyDict == [x \in {} |-> <<>>]
\* A classDict a caller built before, from a file with the value 'b' in column A.
DictLiteral == [x \in {"A"} |-> <<"b">>]
\* A norm dict a caller built before.
NormLiteral ==
    [x \in {"A", "B"} |->
        IF x = "A" THEN [mean |-> FromInt(1), std |-> FromInt(2)]
                   ELSE [mean |-> FromInt(3), std |-> Num(1, 2, 1)]]

----------------------------------------------------------------------------
(* Lines 54-56: the features that are not ignored, the input ones, the target ones. *)

\* 'target' in features[f]
IsTarget(kind) == kind \in {"target_continuous", "target_class"}

Features(schema) == SelectSeq(schema, LAMBDA f : f.kind # "ignore")
InputFeatures(schema) ==
    SelectSeq(schema, LAMBDA f : f.kind # "ignore" /\ ~IsTarget(f.kind))
TargetFeatures(schema) ==
    SelectSeq(schema, LAMBDA f : f.kind # "ignore" /\ IsTarget(f.kind))

NamesOf(fs) == {fs[i].name : i \in 1..Len(fs)}

\* list(fs.keys()).index(name), 0-based.
IndexOf(fs, name) == (CHOOSE i \in 1..Len(fs) : fs[i].name = name) - 1

----------------------------------------------------------------------------
(* Matrices: shape (Len(rows), ncols). *)

Matrix(ncols, rows) == [ncols |-> ncols, rows |-> rows]
NRows(M) == Len(M.rows)
\* M[:, c]
Col(M, c) == [i \in 1..NRows(M) |-> M.rows[i][c + 1]]
\* M[:, c] = col
SetCol(M, c, col) ==
    Matrix(M.ncols, [i \in 1..NRows(M) |-> [M.rows[i] EXCEPT ![c + 1] = col[i]]])
\* M[r, c] = v
SetCell(M, r, c, v) == Matrix(M.ncols, [M.rows EXCEPT ![r + 1][c + 1] = v])

----------------------------------------------------------------------------
(* State. *)

VARIABLES
    classDictHeap,  \* the dict objects classDict may refer to: the default-argument
                    \* object of line 16 ("default") and the caller's own ("caller")
    normHeap,       \* the same for norm
    pc,             \* position of the running call: idle, fill, normalize, encode,
                    \* finish, done, failed
    err,            \* the exception that ended the call, or "none"
    csvHeader,      \* the csv file: its column names,
    rowCount,       \*   its number of records (line 70),
    rows,           \*   and the records read so far
    features,       \* self.features (line 54)
    input_features, \* self.input_features (line 55)
    target_features,\* self.target_features (line 56)
    classDict,      \* self.classDict (line 57): a reference into classDictHeap
    norm,           \* self.norm (line 58): a reference into normHeap
    nan_arg,        \* the argument nan_behaviour of __init__
    nan_behaviour,  \* self.nan_behaviour, "UNSET" while the instance has no such attribute
    input_set,      \* self.input_set
    target_set,     \* self.target_set
    input_vector_length,   \* line 62, -1 while unassigned
    target_vector_length,  \* line 63, -1 while unassigned
    stages,         \* history: the stages the running call has entered, in order
    classDict0,     \* history: classDictHeap when the running call began
    norm0,          \* history: normHeap when the running call began
    raw_input,      \* history: input_set when the fill loop ended
    raw_target      \* history: target_set when the fill loop ended

vars == <<classDictHeap, normHeap, pc, err, csvHeader, rowCount, rows, features,
          input_features, target_features, classDict, norm, nan_arg, nan_behaviour,
          input_set, target_set, input_vector_length, target_vector_length,
          stages, classDict0, norm0, raw_input, raw_target>>

NoMatrix == Matrix(0, <<>>)
Refs == {"default", "caller"}

----------------------------------------------------------------------------
(* _construct_matrices, lines 76-120: one record of the csv file. *)

\* A deliberately wrong variant of AppendClass: the new value is put in front of the list.
PrependClass(seq, v) == <<v>> \o seq

\* Line 108: classDict[feature].append(value).
AppendClass(seq, v) == Append(seq, v)

\* Lines 103-108 (and 113-118): the dict after seeing value v of a feature.
AddClass(d, name, v) ==
    LET d1 == IF name \in DOMAIN d THEN d
              ELSE [x \in DOMAIN d \cup {name} |-> IF x = name THEN <<>> ELSE d[x]]
    IN  IF \E i \in 1..Len(d1[name]) : d1[name][i] = v THEN d1
        ELSE [d1 EXCEPT ![name] = AppendClass(d1[name], v)]

\* classDict[feature].index(value), 0-based (lines 110, 120).
ClassIndex(seq, v) == (CHOOSE i \in 1..Len(seq) : seq[i] = v /\ \A j \in 1..(i - 1) : seq[j] # v) - 1

\* Lines 88-92 (and 96-100): the float of a cell text; "bad" where float() raises.
ParseCell(s) == IF s = "" THEN [ok |-> TRUE, v |-> NaN]
                ELSE IF s \in Numeric THEN [ok |-> TRUE, v |-> Float(s)]
                ELSE [ok |-> FALSE, v |-> NaN]

\* Lines 80-120 for one feature f of record `rec`, the r-th of the file (0-based).
\* st holds the two matrices, the dict and the exception raised so far.
FillFeature(st, f, rec, r, inF, tgF) ==
    IF st.err # "none" THEN st
    ELSE IF f.name \notin DOMAIN rec THEN st
    ELSE IF f.kind = "continuous" THEN
        LET p == ParseCell(rec[f.name])
        IN  IF p.ok THEN [st EXCEPT !.inp = SetCell(st.inp, r, IndexOf(inF, f.name), p.v)]
            ELSE [st EXCEPT !.err = "ValueError"]
    ELSE IF f.kind = "target_continuous" THEN
        LET p == ParseCell(rec[f.name])
        IN  IF p.ok THEN [st EXCEPT !.tgt = SetCell(st.tgt, r, IndexOf(tgF, f.name), p.v)]
            ELSE [st EXCEPT !.err = "ValueError"]
    ELSE IF f.kind = "class" THEN
        LET d == AddClass(st.cd, f.name, rec[f.name])
        IN  [st EXCEPT !.cd = d,
                       !.inp = SetCell(st.inp, r, IndexOf(inF, f.name),
                                       FromInt(ClassIndex(d[f.name], rec[f.name])))]
    ELSE IF f.kind = "target_class" THEN
        LET d == AddClass(st.cd, f.name, rec[f.name])
        IN  [st EXCEPT !.cd = d,
                       !.tgt = SetCell(st.tgt, r, IndexOf(tgF, f.name),
                                       FromInt(ClassIndex(d[f.name], rec[f.name])))]
    ELSE st

\* The loop of line 80 over self.features, from feature number j on.
RECURSIVE FillRecord(_, _, _, _, _, _, _)
FillRecord(st, fs, j, rec, r, inF, tgF) ==
    IF j > Len(fs) THEN st
    ELSE FillRecord(FillFeature(st, fs[j], rec, r, inF, tgF), fs, j + 1, rec, r, inF, tgF)

\* The texts a record may hold in the column of a feature.
CellStrings(kind) == IF kind \in {"class", "target_class"} THEN ClassStrings ELSE ContStrings

\* The records of a file with the given header, cut down to the declared columns:
\* DictReader gives every row a text for every column of the header.
Records(header, fs) ==
    LET P == NamesOf(fs) \cap header
    IN  { rec \in [P -> ContStrings \cup ClassStrings] :
            \A i \in 1..Len(fs) : fs[i].name \in P => rec[fs[i].name] \in CellStrings(fs[i].kind) }

----------------------------------------------------------------------------
(* _normalize, lines 151-178. *)

\* Lines 162-166 (and 173-177): the entry of norm used for a feature whose
\* statistics column is col; computed only when norm has none.
NormEntry(nm, name, col) ==
    IF name \in DOMAIN nm THEN nm[name]
    ELSE [mean |-> NanMean(col), std |-> NanStd(col)]

\* Lines 168, 178: (column - mean) / std.
Scale(col, e) == [i \in 1..Len(col) |-> Div(Sub(col[i], e.mean), e.std)]

\* Lines 175-176: the column the statistics of the target feature in column c
\* of target_set are computed from.
TargetStatsColumn(inp, tgt, c) == Col(inp, c)

\* norm[name] = e
PutNorm(nm, name, e) == [x \in DOMAIN nm \cup {name} |-> IF x = name THEN e ELSE nm[x]]

\* Lines 157-178 for one feature; st holds the matrices, norm and the exception.
NormalizeFeature(st, f, inF, tgF) ==
    IF st.err # "none" THEN st
    ELSE IF f.kind = "continuous" THEN
        LET c == IndexOf(inF, f.name)
            e == NormEntry(st.nm, f.name, Col(st.inp, c))
        IN  [st EXCEPT !.nm = PutNorm(st.nm, f.name, e),
                       !.inp = SetCol(st.inp, c, Scale(Col(st.inp, c), e))]
    ELSE IF f.kind = "target_continuous" THEN
        LET c == IndexOf(tgF, f.name)
        IN  IF f.name \notin DOMAIN st.nm /\ c >= st.inp.ncols THEN
                \* input_set[:, c] with c out of bounds for axis 1
                [st EXCEPT !.err = "IndexError"]
            ELSE
                LET e == IF f.name \in DOMAIN st.nm THEN st.nm[f.name]
                         ELSE NormEntry(st.nm, f.name, TargetStatsColumn(st.inp, st.tgt, c))
                IN  [st EXCEPT !.nm = PutNorm(st.nm, f.name, e),
                               !.tgt = SetCol(st.tgt, c, Scale(Col(st.tgt, c), e))]
    ELSE st

\* The loop of line 156 over self.features, from feature number j on.
RECURSIVE NormalizeLoop(_, _, _, _, _)
NormalizeLoop(st, fs, j, inF, tgF) ==
    IF j > Len(fs) THEN st
    ELSE NormalizeLoop(NormalizeFeature(st, fs[j], inF, tgF), fs, j + 1, inF, tgF)

\* Lines 153-155: reading self.nan_behaviour raises AttributeError on an instance
\* without the attribute; under 'delete_row' line 154 reads the name input_set,
\* which no scope defines, and raises NameError.
NanPolicyStep(attr) ==
    IF attr = "UNSET" THEN "AttributeError"
    ELSE IF attr = "delete_row" THEN "NameError"
    ELSE "none"

----------------------------------------------------------------------------
(* _hot_encode, lines 188-201, and _encode_classes, lines 124-149. *)

\* What astype(int) gives for NaN and the infinities: the most negative integer.
MinInt == -(2^30)

\* astype(int): truncation towards zero.
AsInt(v) ==
    IF v.k = "num" /\ v.r = 1 THEN
        (IF v.n >= 0 THEN v.n \div v.d ELSE -((-v.n) \div v.d))
    ELSE MinInt

\* Line 199: two classes or fewer keep only the first column.
Collapses(max_i) == max_i <= 2

\* _hot_encode(i, max_i) for a vector i of integers: the rows of the encoded
\* matrix and its number of columns, or IndexError.
HotEncode(i, max_i) ==
    LET pos(x) == IF x >= 0 THEN x ELSE max_i + x
        v == [x \in 1..Len(i) |->
                [c \in 1..max_i |-> IF c - 1 = pos(i[x]) THEN FromInt(1) ELSE Zero]]
    IN  IF \E x \in 1..Len(i) : i[x] < -max_i \/ i[x] >= max_i THEN
            [err |-> "IndexError", width |-> 0, rows |-> <<>>]   \* line 195
        ELSE IF Collapses(max_i) THEN
            IF max_i = 0 THEN [err |-> "IndexError", width |-> 0, rows |-> <<>>]  \* line 200
            ELSE [err |-> "none", width |-> 1,
                  rows |-> [x \in 1..Len(i) |-> <<v[x][1]>>]]
        ELSE [err |-> "none", width |-> max_i, rows |-> v]

\* Line 137 (and 148): c_offset += encoded.shape[1] - 1.
NextOffset(c_offset, width) == c_offset + width - 1

\* Line 139 (and 149): np.hstack([M[:, :c], encoded, M[:, (c+1):]]).
HStack(M, c, enc) ==
    Matrix(M.ncols - 1 + enc.width,
           [x \in 1..NRows(M) |->
               SubSeq(M.rows[x], 1, c) \o enc.rows[x] \o SubSeq(M.rows[x], c + 2, M.ncols)])

\* Lines 127-139 (and 143-149) from feature number j on: st holds the matrix,
\* c_offset and the exception; `kind` is the type that is hot-encoded.
RECURSIVE EncodeSide(_, _, _, _, _)
EncodeSide(st, fs, j, kind, cd) ==
    IF j > Len(fs) \/ st.err # "none" THEN st
    ELSE IF fs[j].kind # kind THEN EncodeSide(st, fs, j + 1, kind, cd)
    ELSE IF fs[j].name \notin DOMAIN cd THEN [st EXCEPT !.err = "KeyError"]   \* line 132
    ELSE
        LET c   == (j - 1) + st.off
            col == Col(st.m, c)
            enc == HotEncode([x \in 1..Len(col) |-> AsInt(col[x])], Len(cd[fs[j].name]))
        IN  IF enc.err # "none" THEN [st EXCEPT !.err = enc.err]
            ELSE EncodeSide([m |-> HStack(st.m, c, enc),
                             off |-> NextOffset(st.off, enc.width),
                             err |-> "none"], fs, j + 1, kind, cd)

----------------------------------------------------------------------------
(* The operations. *)

\* The headers of the files read with a features dict: every declared column,
\* or all but a missing one.
Headers(schema) ==
    {NamesOf(schema)} \cup {NamesOf(schema) \ {m} : m \in MissingColumns}

\* Lines 16-60 and 70-74: a call MachineLearningSet(csvFileName, features,
\* classDict, norm, nan_behaviour) up to the allocation of the two arrays.
\* cdArg and nmArg say which dict object the call is given: "default" when the
\* argument is left out.  The instance has no attribute nan_behaviour yet:
\* line 64 assigns it, after line 61 has run _construct_matrices.
Construct ==
    /\ pc = "idle"
    /\ \E schema \in CallSchemas, n \in 0..MaxRows, policy \in Policies,
          cdArg \in Refs, nmArg \in Refs :
        \E header \in Headers(schema) :
          LET fs  == Features(schema)
              inF == InputFeatures(schema)
              tgF == TargetFeatures(schema)
              \* cells no record stores into keep what np.ndarray left there
              absIn == {c \in 1..Len(inF) : inF[c].name \notin header}
              absTg == {c \in 1..Len(tgF) : tgF[c].name \notin header}
          IN  \E gi \in [(1..n) \X absIn -> Garbage], gt \in [(1..n) \X absTg -> Garbage] :
                LET inp == Matrix(Len(inF), [i \in 1..n |-> [c \in 1..Len(inF) |->
                               IF c \in absIn THEN gi[<<i, c>>] ELSE Uninit]])
                    tgt == Matrix(Len(tgF), [i \in 1..n |-> [c \in 1..Len(tgF) |->
                               IF c \in absTg THEN gt[<<i, c>>] ELSE Uninit]])
                IN  /\ csvHeader' = header
                    /\ rowCount' = n
                    /\ rows' = <<>>
                    /\ features' = fs
                    /\ input_features' = inF
                    /\ target_features' = tgF
                    /\ classDict' = cdArg
                    /\ norm' = nmArg
                    /\ nan_arg' = policy
                    /\ nan_behaviour' = "UNSET"
                    /\ input_set' = inp
                    /\ target_set' = tgt
                    /\ raw_input' = IF n = 0 THEN inp ELSE NoMatrix
                    /\ raw_target' = IF n = 0 THEN tgt ELSE NoMatrix
                    /\ pc' = IF n = 0 THEN "normalize" ELSE "fill"
    /\ err' = "none"
    /\ input_vector_length' = -1
    /\ target_vector_length' = -1
    /\ stages' = <<"fill">>
    /\ classDict0' = classDictHeap
    /\ norm0' = normHeap
    /\ UNCHANGED <<classDictHeap, normHeap>>

\* Where the call stands after a record: the exception leaves it; line 121 is
\* reached when the loop of line 79 has read the last record.
AfterRecord(e, last) ==
    IF e # "none" THEN "failed" ELSE IF last THEN "normalize" ELSE "fill"

\* Lines 79-120: the next record of the file.
FillRow ==
    /\ pc = "fill"
    /\ \E rec \in Records(csvHeader, features) :
        LET st == FillRecord([inp |-> input_set, tgt |-> target_set,
                              cd |-> classDictHeap[classDict], err |-> "none"],
                             features, 1, rec, Len(rows), input_features, target_features)
            last == Len(rows) + 1 = rowCount
        IN  /\ rows' = Append(rows, rec)
            /\ classDictHeap' = [classDictHeap EXCEPT ![classDict] = st.cd]
            /\ input_set' = st.inp
            /\ target_set' = st.tgt
            /\ err' = st.err
            /\ pc' = AfterRecord(st.err, last)
            /\ raw_input' = IF st.err = "none" /\ last THEN st.inp ELSE raw_input
            /\ raw_target' = IF st.err = "none" /\ last THEN st.tgt ELSE raw_target
    /\ UNCHANGED <<normHeap, csvHeader, rowCount, features, input_features,
                   target_features, classDict, norm, nan_arg, nan_behaviour,
                   input_vector_length, target_vector_length, stages, classDict0, norm0>>

\* Line 121: self._normalize().
Normalize ==
    /\ pc = "normalize"
    /\ LET policyErr == NanPolicyStep(nan_behaviour)
           st == NormalizeLoop([inp |-> input_set, tgt |-> target_set,
                                nm |-> normHeap[norm], err |-> "none"],
                               features, 1, input_features, target_features)
       IN  IF policyErr # "none" THEN
               /\ err' = policyErr
               /\ pc' = "failed"
               /\ stages' = Append(stages, "nan_policy")
               /\ UNCHANGED <<normHeap, input_set, target_set>>
           ELSE
               /\ err' = st.err
               /\ pc' = IF st.err # "none" THEN "failed" ELSE "encode"
               /\ stages' = stages \o <<"nan_policy", "normalize">>
               /\ normHeap' = [normHeap EXCEPT ![norm] = st.nm]
               /\ input_set' = st.inp
               /\ target_set' = st.tgt
    /\ UNCHANGED <<classDictHeap, csvHeader, rowCount, rows, features, input_features,
                   target_features, classDict, norm, nan_arg, nan_behaviour,
                   input_vector_length, target_vector_length, classDict0, norm0,
                   raw_input, raw_target>>

\* Line 122: self._encode_classes().  It runs when _normalize has returned,
\* which InitNeverNormalizes shows no call sees: no disjunct of Next.
EncodeClasses ==
    /\ pc = "encode"
    /\ LET cd == classDictHeap[classDict]
           a  == EncodeSide([m |-> input_set, off |-> 0, err |-> "none"],
                            input_features, 1, "class", cd)
           b  == IF a.err # "none" THEN [m |-> target_set, off |-> 0, err |-> a.err]
                 ELSE EncodeSide([m |-> target_set, off |-> 0, err |-> "none"],
                                 target_features, 1, "target_class", cd)
       IN  /\ input_set' = a.m
           /\ target_set' = b.m
           /\ err' = b.err
           /\ pc' = IF b.err # "none" THEN "failed" ELSE "finish"
    /\ stages' = Append(stages, "expand")
    /\ UNCHANGED <<classDictHeap, normHeap, csvHeader, rowCount, rows, features,
                   input_features, target_features, classDict, norm, nan_arg,
                   nan_behaviour, input_vector_length, target_vector_length,
                   classDict0, norm0, raw_input, raw_target>>

\* Lines 62-64, when _construct_matrices has returned: like EncodeClasses no
\* disjunct of Next.
Finish ==
    /\ pc = "finish"
    /\ input_vector_length' = input_set.ncols
    /\ target_vector_length' = target_set.ncols
    /\ nan_behaviour' = nan_arg
    /\ pc' = "done"
    /\ UNCHANGED <<classDictHeap, normHeap, err, csvHeader, rowCount, rows, features,
                   input_features, target_features, classDict, norm, nan_arg,
                   input_set, target_set, stages, classDict0, norm0, raw_input, raw_target>>

\* The call is over: __init__ returned, or the exception left it.  The caller
\* is back in control; an instance whose __init__ raised was never bound to a
\* name, and the classDict and norm objects live on.
Return ==
    /\ pc \in {"done", "failed"}
    /\ pc' = "idle"
    /\ err' = "none"
    /\ csvHeader' = {}
    /\ rowCount' = 0
    /\ rows' = <<>>
    /\ features' = <<>>
    /\ input_features' = <<>>
    /\ target_features' = <<>>
    /\ classDict' = "default"
    /\ norm' = "default"
    /\ nan_arg' = "ignore"
    /\ nan_behaviour' = "UNSET"
    /\ input_set' = NoMatrix
    /\ target_set' = NoMatrix
    /\ input_vector_length' = -1
    /\ target_vector_length' = -1
    /\ stages' = <<>>
    /\ raw_input' = NoMatrix
    /\ raw_target' = NoMatrix
    /\ classDict0' = classDictHeap
    /\ norm0' = normHeap
    /\ UNCHANGED <<classDictHeap, normHeap>>

----------------------------------------------------------------------------
(* Specifications. *)

\* The program: the default arguments of line 16 are empty dicts made once,
\* when the def statement runs; the caller holds a classDict and a norm
\* built before, which they may pass to any call.
Init ==
    /\ pc = "idle"
    /\ err = "none"
    /\ csvHeader = {}
    /\ rowCount = 0
    /\ rows = <<>>
    /\ features = <<>>
    /\ input_features = <<>>
    /\ target_features = <<>>
    /\ classDict = "default"
    /\ norm = "default"
    /\ nan_arg = "ignore"
    /\ nan_behaviour = "UNSET"
    /\ input_set = NoMatrix
    /\ target_set = NoMatrix
    /\ input_vector_length = -1
    /\ target_vector_length = -1
    /\ stages = <<>>
    /\ raw_input = NoMatrix
    /\ raw_target = NoMatrix
    /\ classDictHeap = [o \in Refs |-> IF o = "caller" THEN DictLiteral ELSE EmptyDict]
    /\ normHeap = [o \in Refs |-> IF o = "caller" THEN NormLiteral ELSE [x \in {} |-> NaN]]
    /\ classDict0 = classDictHeap
    /\ norm0 = normHeap

\* Any number of constructor calls, one after the other.  Every call that
\* reads its records to the end stops at line 153 (InitNeverNormalizes), so
\* EncodeClasses and Finish never take a step.
Next == Construct \/ FillRow \/ Normalize \/ Return

Spec == Init /\ [][Next]_vars

----------------------------------------------------------------------------
(* Properties. *)

IsClassKind(kind) == kind \in {"class", "target_class"}
IsContinuousKind(kind) == kind \in {"continuous", "target_continuous"}

\* The dict and the norm the running call refers to.
TheDict == classDictHeap[classDict]
TheNorm == normHeap[norm]

\* s is a prefix of t.
IsPrefix(s, t) == Len(s) <= Len(t) /\ SubSeq(t, 1, Len(s)) = s

\* The call is over and its records were all read: __init__ returned, or an
\* exception other than the ValueError of float() on a bad cell left it.
CallOver == pc \in {"done", "failed"} /\ err # "ValueError"

\* Through __init__ no call gets past line 153: _normalize never returns,
\* _encode_classes and lines 62-64 never run.
InitNeverNormalizes == pc \notin {"encode", "finish", "done"}

\* Once the records are read every cell of the matrices holds a float: a
\* number, NaN or an infinity.
ValuesExact ==
    pc = "normalize" =>
        \A M \in {input_set, target_set} : \A x \in 1..NRows(M) : \A c \in 1..Len(M.rows[x]) :
            M.rows[x][c].k \in {"num", "nan", "inf"}

\* C1: a construction leaves every code of the dictionary it is given in place:
\* the list each feature had when the call began (after the construction
\* before it) is a prefix of the list the feature has during and after the call.
C1_CodesKept ==
    \A o \in Refs : \A f \in DOMAIN classDict0[o] :
        /\ f \in DOMAIN classDictHeap[o]
        /\ IsPrefix(classDict0[o][f], classDictHeap[o][f])

\* A second construction has added unseen values to lists an earlier one built.
C1_Witness ==
    /\ pc = "failed"
    /\ classDict = "caller"
    /\ \E f \in DOMAIN classDict0["caller"] :
        /\ Len(classDict0["caller"][f]) > Len(DictLiteral[f])
        /\ Len(classDictHeap["caller"][f]) > Len(classDict0["caller"][f])

\* C9: a call given no classDict starts from an empty dictionary, so the first
\* value it reads for a categorical feature gets code 0.
C9_FreshWithoutArguments ==
    (pc \in {"fill", "normalize", "failed"} /\ classDict = "default" /\ rows # <<>>) =>
        \A j \in 1..Len(features) :
            (/\ IsClassKind(features[j].kind)
             /\ features[j].name \in DOMAIN rows[1]
             /\ features[j].name \in DOMAIN TheDict)
            => TheDict[features[j].name][1] = rows[1][features[j].name]

\* C10: a call under 'ignore' whose continuous cells are numeric or empty ends
\* in no exception, and nan_behaviour is stored on the instance when line 153
\* reads it.
C10_IgnoreCallFinishes ==
    /\ (nan_arg = "ignore" /\ pc = "failed") => err = "ValueError"
    /\ (\E i \in 1..Len(stages) : stages[i] = "nan_policy") => nan_behaviour # "UNSET"

\* C4: a call whose nan_behaviour is neither 'ignore' nor 'delete_row' is
\* refused on entry: it has failed with an unsupported-policy error before any
\* record is read.
C4_UnsupportedRefusedOnEntry ==
    (pc # "idle" /\ nan_arg \notin NANBEHAVIOUR) =>
        (pc = "failed" /\ err = "UnsupportedError" /\ rows = <<>>)

\* C7: the stages of a call are entered in the order fill, normalize, expand
\* and, in a call under 'delete_row', the dropping of rows (lines 153-155)
\* after them, none of them twice; both matrices keep their N rows until the
\* expansion is done, and all N records are read when normalization starts.
\* In a call under another policy the test of line 153 is no stage.
C7_DropRowsLast ==
    LET own == IF nan_arg = "delete_row" THEN stages
               ELSE SelectSeq(stages, LAMBDA g : g # "nan_policy")
    IN  /\ IsPrefix(own, <<"fill", "normalize", "expand", "nan_policy">>)
        /\ (pc # "idle" /\ \A i \in 1..Len(stages) : stages[i] # "expand") =>
              /\ NRows(input_set) = rowCount
              /\ NRows(target_set) = rowCount
        /\ (\E i \in 1..Len(stages) : stages[i] = "normalize") => Len(rows) = rowCount

\* The number of columns a feature takes in a final matrix.
WidthOf(f) ==
    IF IsClassKind(f.kind) /\ f.name \in DOMAIN TheDict /\ Len(TheDict[f.name]) > 2
    THEN Len(TheDict[f.name]) ELSE 1

\* The columns of the first j features of fs together.
RECURSIVE WidthUpTo(_, _)
WidthUpTo(fs, j) == IF j = 0 THEN 0 ELSE WidthUpTo(fs, j - 1) + WidthOf(fs[j])

\* The matrix a feature of the given kind is stored in, and the features of
\* that matrix.
SideOf(kind, inp, tgt) == IF IsTarget(kind) THEN tgt ELSE inp
SideFeatures(kind) == IF IsTarget(kind) THEN target_features ELSE input_features

\* The column a feature has in its matrix: its index among the features of
\* its side, moved right by the expansions before it in a final matrix.
ColumnOf(f) ==
    LET fs == SideFeatures(f.kind)
        i  == IndexOf(fs, f.name)
    IN  IF pc = "done" THEN WidthUpTo(fs, i) ELSE i

\* The column of a feature as the fill loop left it.
RawColumn(f) == Col(SideOf(f.kind, raw_input, raw_target), IndexOf(SideFeatures(f.kind), f.name))

\* C2: an entry norm holds for a continuous feature when the call begins is
\* the same during and after the call, and when the call is over the feature's
\* column is the column read from the file scaled with that entry.
C2_SuppliedStatsKept ==
    \A j \in 1..Len(features) :
        LET f == features[j]
        IN  (pc # "idle" /\ IsContinuousKind(f.kind) /\ f.name \in DOMAIN norm0[norm]) =>
                /\ f.name \in DOMAIN TheNorm
                /\ TheNorm[f.name] = norm0[norm][f.name]
                /\ (CallOver /\ f.name \in csvHeader) =>
                     Col(SideOf(f.kind, input_set, target_set), ColumnOf(f))
                         = Scale(RawColumn(f), norm0[norm][f.name])

\* The mean and the deviation of a feature's own column as read from the file.
OwnStats(f) == [mean |-> NanMean(RawColumn(f)), std |-> NanStd(RawColumn(f))]

\* A continuous feature that is a column of a file with records and has no
\* entry in the norm the call was given.
NeedsStats(f) ==
    /\ IsContinuousKind(f.kind)
    /\ f.name \in csvHeader
    /\ f.name \notin DOMAIN norm0[norm]
    /\ rowCount > 0

\* C8: for a continuous feature without an entry, the loop of lines 156-178,
\* applied to the matrices the fill loop left, stores the mean and the
\* deviation of the feature's own column; and that is the entry norm holds
\* when the call is over.
C8_StatsFromOwnColumn ==
    /\ pc = "normalize" =>
          LET st == NormalizeLoop([inp |-> input_set, tgt |-> target_set,
                                   nm |-> normHeap[norm], err |-> "none"],
                                  features, 1, input_features, target_features)
          IN  \A j \in 1..Len(features) :
                  NeedsStats(features[j]) =>
                      /\ st.err = "none"
                      /\ features[j].name \in DOMAIN st.nm
                      /\ st.nm[features[j].name] = OwnStats(features[j])
    /\ CallOver =>
          \A j \in 1..Len(features) :
              NeedsStats(features[j]) =>
                  /\ features[j].name \in DOMAIN TheNorm
                  /\ TheNorm[features[j].name] = OwnStats(features[j])

\* The rows that hold no NaN, neither in the input nor in the target matrix.
HasNaN(row) == \E c \in 1..Len(row) : IsNaN(row[c])
CleanRows == {x \in 1..NRows(raw_input) : ~HasNaN(raw_input.rows[x]) /\ ~HasNaN(raw_target.rows[x])}

\* C3: a call under 'delete_row' whose records were all read, one of them with
\* a NaN, ends with two matrices of the same number of rows, the rows without NaN.
C3_DeleteRowDropsNaNRows ==
    (/\ nan_arg = "delete_row"
     /\ pc \in {"done", "failed"}
     /\ Len(stages) > 1
     /\ \E x \in 1..Len(rows) : \E name \in DOMAIN rows[x] : rows[x][name] = "") =>
        /\ pc = "done"
        /\ NRows(input_set) = Cardinality(CleanRows)
        /\ NRows(target_set) = Cardinality(CleanRows)
        /\ \A x \in 1..NRows(input_set) : ~HasNaN(input_set.rows[x])
        /\ \A x \in 1..NRows(target_set) : ~HasNaN(target_set.rows[x])

\* C5: the matrices a call ends with have one column per continuous feature,
\* one per categorical feature of two classes or fewer and k per categorical
\* feature of k > 2 classes.
C5_ColumnCount ==
    CallOver =>
        /\ input_set.ncols = WidthUpTo(input_features, Len(input_features))
        /\ target_set.ncols = WidthUpTo(target_features, Len(target_features))

\* The code a record has for a categorical feature.
CodeOf(f, rec) == ClassIndex(TheDict[f.name], rec[f.name])

\* The cells of feature number j of fs in row x of the matrix M are the
\* one-hot block of the code of record x.
BlockRight(M, fs, j, x) ==
    LET f     == fs[j]
        k     == Len(TheDict[f.name])
        start == WidthUpTo(fs, j - 1)
        code  == CodeOf(f, rows[x])
        width == IF k > 2 THEN k ELSE 1
    IN  /\ start + width <= Len(M.rows[x])
        /\ IF k > 2 THEN
               \A p \in 0..(k - 1) :
                   M.rows[x][start + 1 + p] = IF p = code THEN FromInt(1) ELSE Zero
           ELSE M.rows[x][start + 1] = IF code = 0 THEN FromInt(1) ELSE Zero

\* C6: in every row of the matrices a call ends with, a categorical feature of
\* k > 2 classes has a single 1, at the place of the record's code in its
\* block of k columns, and one of k <= 2 classes has a 1 exactly for code 0.
C6_OneHotBlocks ==
    CallOver =>
        /\ \A j \in 1..Len(input_features) :
              (IsClassKind(input_features[j].kind) /\ input_features[j].name \in csvHeader) =>
                  \A x \in 1..rowCount : BlockRight(input_set, input_features, j, x)
        /\ \A j \in 1..Len(target_features) :
              (IsClassKind(target_features[j].kind) /\ target_features[j].name \in csvHeader) =>
                  \A x \in 1..rowCount : BlockRight(target_set, target_features, j, x)
====
